---------------------------- MODULE Spec2Model ----------------------------
(***************************************************************************)
(* Visibility and ownership policy of the blogicum blog application        *)
(* (blogicum/blog/views.py, forms.py, urls.py).                            *)
(*                                                                         *)
(* The state is the content of the database tables the views read and      *)
(* write (Post, Comment; Category and User rows are fixed, no view of      *)
(* urls.py creates them), the clock read by timezone.now(), and the        *)
(* response of the last request.  Every route of urls.py that reads or     *)
(* writes Post/Comment is one action: the whole request, from              *)
(* LoginRequiredMixin.dispatch to the redirect.                            *)
(*                                                                         *)
(* Post fields kept: author, is_published, pub_date, category.  title,     *)
(* text, location are carried by the forms but read by no condition of     *)
(* the views; of the form data only the emptiness of the title (the        *)
(* form's validity) is kept.  Listings are the querysets returned by       *)
(* get_queryset, as sets of primary keys (ordering and the split into      *)
(* pages of PAGE_PAGINATOR are done by PostListMixin/ListView afterwards). *)
(*                                                                         *)
(* Requests are handled one at a time: resp holds the response of the      *)
(* request just handled until Deliver sends it, and a request is taken     *)
(* when resp is Idle.  ProfileUpdateView edits only the name and e-mail    *)
(* fields of the requesting user, which no other view reads, and is left   *)
(* out.  mixins.py and models.py are not part of the sources at hand;      *)
(* PostListMixin, ChangePostMixin, CommentChangeMixin and the model        *)
(* fields follow the design document.                                      *)
(***************************************************************************)
EXTENDS Integers, FiniteSets, TLC

\* ------------------------------------------------------------------ bounds
MaxPosts == 1        \* primary keys a Post can get: 1..MaxPosts
MaxComments == 1     \* primary keys a Comment can get: 1..MaxComments
MaxTime == 1         \* the clock and pub_date range over 0..MaxTime

\* ------------------------------------------------------------ fixed tables
Users == {"u1", "u2"}                 \* rows of the User table (usernames)
Anonymous == "anon"                   \* request.user of a session-less request
Viewers == Users \cup {Anonymous}
Usernames == Users \cup {"nobody"}    \* <str:username> values a URL can carry

\* rows of the Category table, by slug: one published, one not
Category == [c \in {"c1", "c2"} |-> [is_published |-> (c = "c1")]]
NoCategory == "none"                  \* Post.category is NULL
Slugs == DOMAIN Category \cup {"nope"}   \* <slug:category_slug> values

PostIds == 1..(MaxPosts + 1)          \* <int:post_id> values; MaxPosts+1 never exists
CommentIds == 1..(MaxComments + 1)    \* <int:comment_id> values
Times == 0..MaxTime

\* data a client can POST to a PostForm view.  author is a field the client
\* may add to the request although the form does not declare it.
PostData == [is_published : BOOLEAN, pub_date : Times,
             category : DOMAIN Category \cup {NoCategory},
             author : Users, title : {"", "t"}]
\* data a client can POST to a CommentForm view
CommentData == [text : {"", "a", "b"}, author : Users]

VARIABLES posts, lastPost, comments, lastComment, now, resp
vars == <<posts, lastPost, comments, lastComment, now, resp>>

\* ---------------------------------------------------------------- responses
NoLocation == [name |-> "", username |-> "", post_id |-> 0]
LoginUrl == [name |-> "login", username |-> "", post_id |-> 0]
ProfileUrl(username) == [name |-> "blog:profile", username |-> username, post_id |-> 0]
PostDetailUrl(post_id) == [name |-> "blog:post_detail", username |-> "", post_id |-> post_id]

\* view: the route's name in urls.py; user: request.user; post_id, comment_id,
\* name: the URL's arguments; status: "ok" (a rendered page), "notfound" (Http404),
\* "redirect"; location: where a redirect goes; listing: the queryset of a list
\* view; object: the pk of the object rendered, created, changed or deleted;
\* claimed: the author value the client put in the POST data.
Response(view, user, post_id, comment_id, name, status, location, listing, object, claimed) ==
    [view |-> view, user |-> user, post_id |-> post_id, comment_id |-> comment_id,
     name |-> name, status |-> status, location |-> location, listing |-> listing,
     object |-> object, claimed |-> claimed]
Idle == Response("", Anonymous, 0, 0, "", "", NoLocation, {}, 0, "")

Init ==
    /\ posts = << >>
    /\ lastPost = 0
    /\ comments = << >>
    /\ lastComment = 0
    /\ now = 0
    /\ resp = Idle

\* ------------------------------------------------------------------ queries
\* category__is_published=True: the lookup joins the Category table, so a
\* post whose category is NULL has no row to match.
category__is_published(p) ==
    p.category \in DOMAIN Category /\ Category[p.category].is_published

\* PostListMixin.get_queryset: the base collection, every Post.
PostListMixin_get_queryset == DOMAIN posts

IndexHome_get_queryset ==
    {i \in PostListMixin_get_queryset :
        /\ posts[i].is_published
        /\ posts[i].pub_date <= now
        /\ category__is_published(posts[i])}

PostDetailView_get_object_Unscheduled(user, post_id) ==
    IF post_id \notin DOMAIN posts
    THEN [status |-> "notfound", object |-> 0]
    ELSE IF posts[post_id].author # user
         THEN IF /\ category__is_published(posts[post_id])
                 /\ posts[post_id].is_published
              THEN [status |-> "ok", object |-> post_id]
              ELSE [status |-> "notfound", object |-> 0]
         ELSE [status |-> "ok", object |-> post_id]

PostDetailView_get_object(user, post_id) ==
    IF post_id \notin DOMAIN posts
    THEN [status |-> "notfound", object |-> 0]
    ELSE IF posts[post_id].author # user
         THEN IF /\ posts[post_id].pub_date <= now
                 /\ category__is_published(posts[post_id])
                 /\ posts[post_id].is_published
              THEN [status |-> "ok", object |-> post_id]
              ELSE [status |-> "notfound", object |-> 0]
         ELSE [status |-> "ok", object |-> post_id]

CategoryListView_get_queryset_AnyCategory(category_slug) ==
    IF category_slug \notin DOMAIN Category
    THEN [status |-> "notfound", listing |-> {}]
    ELSE [status |-> "ok",
          listing |-> {i \in PostListMixin_get_queryset :
                          /\ posts[i].is_published
                          /\ posts[i].pub_date <= now
                          /\ category__is_published(posts[i])
                          /\ posts[i].category = category_slug}]

CategoryListView_get_queryset(category_slug) ==
    IF ~(category_slug \in DOMAIN Category /\ Category[category_slug].is_published)
    THEN [status |-> "notfound", listing |-> {}]
    ELSE [status |-> "ok",
          listing |-> {i \in PostListMixin_get_queryset :
                          /\ posts[i].is_published
                          /\ posts[i].pub_date <= now
                          /\ category__is_published(posts[i])
                          /\ posts[i].category = category_slug}]

ProfileView_get_queryset_AlwaysFiltered(user, username) ==
    IF username \notin Users
    THEN [status |-> "notfound", listing |-> {}]
    ELSE [status |-> "ok",
          listing |-> {i \in PostListMixin_get_queryset :
                          /\ posts[i].is_published
                          /\ category__is_published(posts[i])
                          /\ posts[i].author = username}]

ProfileView_get_queryset(user, username) ==
    IF username \notin Users
    THEN [status |-> "notfound", listing |-> {}]
    ELSE IF username # user
         THEN [status |-> "ok",
               listing |-> {i \in PostListMixin_get_queryset :
                               /\ posts[i].is_published
                               /\ category__is_published(posts[i])
                               /\ posts[i].author = username}]
         ELSE [status |-> "ok",
               listing |-> {i \in PostListMixin_get_queryset :
                               posts[i].author = username}]

\* ------------------------------------------------------------- read requests
\* GET /
IndexHome(user) ==
    /\ resp = Idle
    /\ resp' = Response("index", user, 0, 0, "", "ok", NoLocation,
                        IndexHome_get_queryset, 0, "")
    /\ UNCHANGED <<posts, lastPost, comments, lastComment, now>>

\* GET /posts/<post_id>/
PostDetailView(user, post_id) ==
    /\ resp = Idle
    /\ LET r == PostDetailView_get_object(user, post_id)
       IN resp' = Response("post_detail", user, post_id, 0, "", r.status,
                           NoLocation, {}, r.object, "")
    /\ UNCHANGED <<posts, lastPost, comments, lastComment, now>>

\* GET /category/<category_slug>/
CategoryListView(user, category_slug) ==
    /\ resp = Idle
    /\ LET r == CategoryListView_get_queryset(category_slug)
       IN resp' = Response("category_posts", user, 0, 0, category_slug, r.status,
                           NoLocation, r.listing, 0, "")
    /\ UNCHANGED <<posts, lastPost, comments, lastComment, now>>

\* GET /profile/<username>/
ProfileView(user, username) ==
    /\ resp = Idle
    /\ LET r == ProfileView_get_queryset(user, username)
       IN resp' = Response("profile", user, 0, 0, username, r.status,
                           NoLocation, r.listing, 0, "")
    /\ UNCHANGED <<posts, lastPost, comments, lastComment, now>>

\* timezone.now() advances between requests
Tick ==
    /\ resp = Idle
    /\ now < MaxTime
    /\ now' = now + 1
    /\ UNCHANGED <<posts, lastPost, comments, lastComment, resp>>

\* the response is sent; the next request is taken
Deliver ==
    /\ resp # Idle
    /\ resp' = Idle
    /\ UNCHANGED <<posts, lastPost, comments, lastComment, now>>

\* ------------------------------------------------------------------- forms
\* PostForm: a ModelForm of every Post field but author; it is valid when the
\* required fields are filled in.
PostForm_is_valid(data) == data.title # ""

\* PostForm.save on an instance: the declared fields come from the data, the
\* excluded author stays what the instance has.
PostForm_save(instance, data) ==
    [author |-> instance.author, is_published |-> data.is_published,
     pub_date |-> data.pub_date, category |-> data.category]

\* CommentForm: a ModelForm of the field text alone.
CommentForm_is_valid(data) == data.text # ""

CommentForm_save(instance, data) ==
    [author |-> instance.author, post |-> instance.post, text |-> data.text]

\* ------------------------------------------------------------ post requests
CreatePostView_form_valid_ClientAuthor(user, data) ==
    PostForm_save([author |-> data.author], data)

\* form.instance.author = self.request.user, then the form is saved
CreatePostView_form_valid(user, data) ==
    PostForm_save([author |-> user], data)

CreatePostView_get_success_url(user) == ProfileUrl(user)

\* POST /posts/create/
CreatePostView(user, data) ==
    /\ resp = Idle
    /\ IF user = Anonymous
       THEN /\ resp' = Response("create_post", user, 0, 0, "", "redirect",
                                LoginUrl, {}, 0, "")
            /\ UNCHANGED <<posts, lastPost>>
       ELSE IF ~PostForm_is_valid(data)
       THEN /\ resp' = Response("create_post", user, 0, 0, "", "ok",
                                NoLocation, {}, 0, "")
            /\ UNCHANGED <<posts, lastPost>>
       ELSE /\ lastPost < MaxPosts
            /\ lastPost' = lastPost + 1
            /\ posts' = posts @@ (lastPost' :> CreatePostView_form_valid(user, data))
            /\ resp' = Response("create_post", user, 0, 0, "", "redirect",
                                CreatePostView_get_success_url(user), {},
                                lastPost', data.author)
    /\ UNCHANGED <<comments, lastComment, now>>

\* ChangePostMixin.dispatch: the post of the URL must exist and be the
\* requesting user's; another user is sent to the post's page.
ChangePostMixin_dispatch(user, post_id) ==
    IF post_id \notin DOMAIN posts THEN "notfound"
    ELSE IF posts[post_id].author # user THEN "redirect"
    ELSE "pass"

PostUpdateView_get_success_url_Profile(user, post_id) == ProfileUrl(user)

PostUpdateView_get_success_url(user, post_id) == PostDetailUrl(post_id)

\* UpdateView.post: get_object, form validation, save, redirect
PostUpdateView_post(user, post_id, data) ==
    IF post_id \notin DOMAIN posts
    THEN /\ resp' = Response("edit_post", user, post_id, 0, "", "notfound",
                             NoLocation, {}, 0, "")
         /\ UNCHANGED posts
    ELSE IF ~PostForm_is_valid(data)
    THEN /\ resp' = Response("edit_post", user, post_id, 0, "", "ok",
                             NoLocation, {}, post_id, "")
         /\ UNCHANGED posts
    ELSE /\ posts' = [posts EXCEPT ![post_id] = PostForm_save(@, data)]
         /\ resp' = Response("edit_post", user, post_id, 0, "", "redirect",
                             PostUpdateView_get_success_url(user, post_id), {},
                             post_id, "")

PostUpdateView_WithoutChangePostMixin(user, post_id, data) ==
    /\ resp = Idle
    /\ IF user = Anonymous
       THEN /\ resp' = Response("edit_post", user, post_id, 0, "", "redirect",
                                LoginUrl, {}, 0, "")
            /\ UNCHANGED posts
       ELSE PostUpdateView_post(user, post_id, data)
    /\ UNCHANGED <<lastPost, comments, lastComment, now>>

\* POST /posts/<post_id>/edit/
PostUpdateView(user, post_id, data) ==
    /\ resp = Idle
    /\ IF user = Anonymous
       THEN /\ resp' = Response("edit_post", user, post_id, 0, "", "redirect",
                                LoginUrl, {}, 0, "")
            /\ UNCHANGED posts
       ELSE IF ChangePostMixin_dispatch(user, post_id) = "redirect"
       THEN /\ resp' = Response("edit_post", user, post_id, 0, "", "redirect",
                                PostDetailUrl(post_id), {}, 0, "")
            /\ UNCHANGED posts
       ELSE PostUpdateView_post(user, post_id, data)
    /\ UNCHANGED <<lastPost, comments, lastComment, now>>

PostDeleteView_get_success_url(user) == ProfileUrl(user)

\* Comment.post is a foreign key that deletes the comment with its post
Comment_post_CASCADE(post_id) ==
    [c \in {k \in DOMAIN comments : comments[k].post # post_id} |-> comments[c]]

\* POST /posts/<post_id>/delete/
PostDeleteView(user, post_id) ==
    /\ resp = Idle
    /\ IF user = Anonymous
       THEN /\ resp' = Response("delete_post", user, post_id, 0, "", "redirect",
                                LoginUrl, {}, 0, "")
            /\ UNCHANGED <<posts, comments>>
       ELSE IF ChangePostMixin_dispatch(user, post_id) = "notfound"
       THEN /\ resp' = Response("delete_post", user, post_id, 0, "", "notfound",
                                NoLocation, {}, 0, "")
            /\ UNCHANGED <<posts, comments>>
       ELSE IF ChangePostMixin_dispatch(user, post_id) = "redirect"
       THEN /\ resp' = Response("delete_post", user, post_id, 0, "", "redirect",
                                PostDetailUrl(post_id), {}, 0, "")
            /\ UNCHANGED <<posts, comments>>
       ELSE /\ posts' = [i \in DOMAIN posts \ {post_id} |-> posts[i]]
            /\ comments' = Comment_post_CASCADE(post_id)
            /\ resp' = Response("delete_post", user, post_id, 0, "", "redirect",
                                PostDeleteView_get_success_url(user), {},
                                post_id, "")
    /\ UNCHANGED <<lastPost, lastComment, now>>

\* --------------------------------------------------------- comment requests
\* what CreateView.post answers, before anything is saved: LoginRequiredMixin,
\* then form validation, then form_valid's get_object_or_404(Post, pk=post_id)
CommentCreateView_status(user, post_id, data) ==
    IF user = Anonymous THEN "login"
    ELSE IF ~CommentForm_is_valid(data) THEN "ok"
    ELSE IF post_id \notin DOMAIN posts THEN "notfound"
    ELSE "redirect"

\* form.instance.author = self.request.user; form.instance.post = the post
CommentCreateView_form_valid(user, post_id, data) ==
    CommentForm_save([author |-> user, post |-> post_id], data)

CommentCreateView_get_success_url(post_id) == PostDetailUrl(post_id)

\* POST /posts/<post_id>/comment/
CommentCreateView(user, post_id, data) ==
    /\ resp = Idle
    /\ LET s == CommentCreateView_status(user, post_id, data) IN
       IF s = "login"
       THEN /\ resp' = Response("add_comment", user, post_id, 0, "", "redirect",
                                LoginUrl, {}, 0, "")
            /\ UNCHANGED <<comments, lastComment>>
       ELSE IF s # "redirect"
       THEN /\ resp' = Response("add_comment", user, post_id, 0, "", s,
                                NoLocation, {}, 0, "")
            /\ UNCHANGED <<comments, lastComment>>
       ELSE /\ lastComment < MaxComments
            /\ lastComment' = lastComment + 1
            /\ comments' = comments @@
                   (lastComment' :> CommentCreateView_form_valid(user, post_id, data))
            /\ resp' = Response("add_comment", user, post_id, lastComment', "",
                                "redirect", CommentCreateView_get_success_url(post_id),
                                {}, lastComment', data.author)
    /\ UNCHANGED <<posts, lastPost, now>>

\* CommentChangeMixin: the comment is looked up among the requesting user's
\* own comments; anything else is Http404.
CommentChangeMixin_get_object(user, comment_id) ==
    IF comment_id \in DOMAIN comments /\ comments[comment_id].author = user
    THEN "pass" ELSE "notfound"

\* CommentChangeMixin.get_success_url: the page of the comment's post
CommentChangeMixin_get_success_url(post_id) == PostDetailUrl(post_id)

\* POST /posts/<post_id>/edit_comment/<comment_id>/
CommentUpdateView(user, comment_id, data) ==
    /\ resp = Idle
    /\ IF user = Anonymous
       THEN /\ resp' = Response("edit_comment", user, 0, comment_id, "", "redirect",
                                LoginUrl, {}, 0, "")
            /\ UNCHANGED comments
       ELSE IF CommentChangeMixin_get_object(user, comment_id) = "notfound"
       THEN /\ resp' = Response("edit_comment", user, 0, comment_id, "", "notfound",
                                NoLocation, {}, 0, "")
            /\ UNCHANGED comments
       ELSE IF ~CommentForm_is_valid(data)
       THEN /\ resp' = Response("edit_comment", user, 0, comment_id, "", "ok",
                                NoLocation, {}, comment_id, "")
            /\ UNCHANGED comments
       ELSE /\ comments' = [comments EXCEPT ![comment_id] = CommentForm_save(@, data)]
            /\ resp' = Response("edit_comment", user, 0, comment_id, "", "redirect",
                                CommentChangeMixin_get_success_url(comments[comment_id].post),
                                {}, comment_id, "")
    /\ UNCHANGED <<posts, lastPost, lastComment, now>>

\* POST /posts/<post_id>/delete_comment/<comment_id>/
CommentDeleteView(user, comment_id) ==
    /\ resp = Idle
    /\ IF user = Anonymous
       THEN /\ resp' = Response("delete_comment", user, 0, comment_id, "", "redirect",
                                LoginUrl, {}, 0, "")
            /\ UNCHANGED comments
       ELSE IF CommentChangeMixin_get_object(user, comment_id) = "notfound"
       THEN /\ resp' = Response("delete_comment", user, 0, comment_id, "", "notfound",
                                NoLocation, {}, 0, "")
            /\ UNCHANGED comments
       ELSE /\ comments' = [c \in DOMAIN comments \ {comment_id} |-> comments[c]]
            /\ resp' = Response("delete_comment", user, 0, comment_id, "", "redirect",
                                CommentChangeMixin_get_success_url(comments[comment_id].post),
                                {}, comment_id, "")
    /\ UNCHANGED <<posts, lastPost, lastComment, now>>

\* ------------------------------------------------------------ specification
Next ==
    \/ \E user \in Viewers : IndexHome(user)
    \/ \E user \in Viewers, post_id \in PostIds : PostDetailView(user, post_id)
    \/ \E user \in Viewers, slug \in Slugs : CategoryListView(user, slug)
    \/ \E user \in Viewers, username \in Usernames : ProfileView(user, username)
    \/ \E user \in Viewers, data \in PostData : CreatePostView(user, data)
    \/ \E user \in Viewers, post_id \in PostIds, data \in PostData :
          PostUpdateView(user, post_id, data)
    \/ \E user \in Viewers, post_id \in PostIds : PostDeleteView(user, post_id)
    \/ \E user \in Viewers, post_id \in PostIds, data \in CommentData :
          CommentCreateView(user, post_id, data)
    \/ \E user \in Viewers, comment_id \in CommentIds, data \in CommentData :
          CommentUpdateView(user, comment_id, data)
    \/ \E user \in Viewers, comment_id \in CommentIds : CommentDeleteView(user, comment_id)
    \/ Tick
    \/ Deliver

Spec == Init /\ [][Next]_vars

TypeOK ==
    /\ lastPost \in 0..MaxPosts
    /\ DOMAIN posts \subseteq 1..lastPost
    /\ lastComment \in 0..MaxComments
    /\ DOMAIN comments \subseteq 1..lastComment
    /\ \A c \in DOMAIN comments : comments[c].post \in DOMAIN posts
    /\ now \in Times

\* ------------------------------------------------------------------ claims
\* The post is live: published, not scheduled for later, and its category,
\* if it has one, is published.
LivePost(p) ==
    /\ p.is_published
    /\ p.pub_date <= now
    /\ (p.category = NoCategory \/ Category[p.category].is_published)

\* The post is hidden: unpublished, or scheduled for later, or in an
\* unpublished category.
HiddenPost(p) ==
    \/ ~p.is_published
    \/ p.pub_date > now
    \/ (p.category # NoCategory /\ ~Category[p.category].is_published)

MissingPost == MaxPosts + 1

\* C1: a post appears in the home listing, and in the listing of its own
\* category, to a viewer who is not its author exactly when it is live
\* (published, pub_date <= now, category published or absent).
C1_ListedIffLive ==
    /\ resp.view = "index" =>
          \A i \in DOMAIN posts :
             posts[i].author # resp.user =>
                (i \in resp.listing <=> LivePost(posts[i]))
    /\ resp.view = "category_posts" =>
          \A i \in DOMAIN posts :
             (posts[i].author # resp.user /\ posts[i].category = resp.name) =>
                (i \in resp.listing <=> LivePost(posts[i]))

\* C2: the profile listing of user U requested by another viewer holds only
\* posts of U that are live; in particular no post scheduled for later
\* (pub_date > now) is in it.  (That a live post without category is missing
\* from the listing is the divergence of C1.)
C2_ProfileOfOtherIsLive ==
    (resp.view = "profile" /\ resp.name \in Users /\ resp.user # resp.name) =>
       /\ resp.status = "ok"
       /\ resp.listing \subseteq {i \in DOMAIN posts :
                                    posts[i].author = resp.name /\ LivePost(posts[i])}
       /\ \A i \in resp.listing : posts[i].pub_date <= now

\* C3: whatever its publish flags, a post is in its author's own profile
\* listing and the detail view requested by its author returns it.
C3_AuthorSeesOwn ==
    /\ (resp.view = "profile" /\ resp.user = resp.name) =>
          /\ resp.status = "ok"
          /\ \A i \in DOMAIN posts :
                posts[i].author = resp.user => i \in resp.listing
    /\ (resp.view = "post_detail" /\ resp.post_id \in DOMAIN posts
          /\ posts[resp.post_id].author = resp.user) =>
          (resp.status = "ok" /\ resp.object = resp.post_id)

C3_Witness ==
    /\ resp.view = "profile"
    /\ resp.user = resp.name
    /\ \E i \in resp.listing :
          ~posts[i].is_published /\ posts[i].pub_date > now
             /\ posts[i].category = "c2"

\* C4: the detail view of an existing hidden post requested by anyone but its
\* author is NotFound, never a page with the post.
C4_HiddenDetailNotFound ==
    (resp.view = "post_detail" /\ resp.post_id \in DOMAIN posts
       /\ posts[resp.post_id].author # resp.user
       /\ HiddenPost(posts[resp.post_id])) =>
       (resp.status = "notfound" /\ resp.object = 0)

C4_Witness ==
    /\ resp.view = "post_detail"
    /\ resp.post_id \in DOMAIN posts
    /\ posts[resp.post_id].author # resp.user
    /\ posts[resp.post_id].is_published
    /\ posts[resp.post_id].category = "c1"
    /\ posts[resp.post_id].pub_date > now
    /\ resp.status = "notfound"

\* C5: a created post or comment has as author the user of the request,
\* whatever author value the client sent.
C5_AuthorIsRequestUser ==
    /\ (resp.view = "create_post" /\ resp.object # 0) =>
          posts[resp.object].author = resp.user
    /\ (resp.view = "add_comment" /\ resp.object # 0) =>
          comments[resp.object].author = resp.user

C5_Witness ==
    /\ resp.view = "create_post"
    /\ resp.object # 0
    /\ resp.claimed \in Users
    /\ resp.claimed # resp.user

C7_HiddenAsMissing ==
    \A user \in Viewers, p \in DOMAIN posts, data \in CommentData :
       (posts[p].author # user /\ HiddenPost(posts[p])) =>
          /\ PostDetailView_get_object(user, p).status =
                PostDetailView_get_object(user, MissingPost).status
          /\ CommentCreateView_status(user, p, data) =
                CommentCreateView_status(user, MissingPost, data)

\* C8 as stated: every successful post mutation (create, update, delete)
\* redirects to the acting user's profile page, a successful comment
\* creation to the page of the comment's post.
C8_PostMutationsRedirectToProfile ==
    /\ (resp.view \in {"create_post", "edit_post", "delete_post"}
          /\ resp.status = "redirect" /\ resp.object # 0) =>
          resp.location = ProfileUrl(resp.user)
    /\ (resp.view = "add_comment" /\ resp.object # 0) =>
          resp.location = PostDetailUrl(resp.post_id)

\* C8 amended: a successful post creation or deletion redirects to the acting
\* user's profile page; a successful post update redirects to the detail page
\* of the updated post; a successful comment creation redirects to the detail
\* page of the comment's post.
C8_SuccessRedirects ==
    /\ (resp.view \in {"create_post", "delete_post"}
          /\ resp.status = "redirect" /\ resp.object # 0) =>
          resp.location = ProfileUrl(resp.user)
    /\ (resp.view = "edit_post" /\ resp.status = "redirect" /\ resp.object # 0) =>
          resp.location = PostDetailUrl(resp.post_id)
    /\ (resp.view = "add_comment" /\ resp.object # 0) =>
          /\ resp.location = PostDetailUrl(resp.post_id)
          /\ comments[resp.object].post = resp.post_id

C8_Witness ==
    /\ resp.view = "edit_post"
    /\ resp.status = "redirect"
    /\ resp.object # 0
    /\ resp.location # ProfileUrl(resp.user)

\* C9: a category listing for an unknown slug or an unpublished category is
\* NotFound for every viewer; for a published category every listed post is
\* in that category, published and not scheduled for later; no post of an
\* unpublished category is in a home or category listing.
C9_CategoryListing ==
    /\ resp.view = "category_posts" =>
          /\ (resp.name \notin DOMAIN Category
                \/ ~Category[resp.name].is_published) =>
                (resp.status = "notfound" /\ resp.listing = {})
          /\ \A i \in resp.listing :
                /\ posts[i].category = resp.name
                /\ posts[i].is_published
                /\ posts[i].pub_date <= now
    /\ resp.view \in {"index", "category_posts"} =>
          \A i \in resp.listing :
             ~(posts[i].category \in DOMAIN Category
                 /\ ~Category[posts[i].category].is_published)

C9_Witness ==
    /\ resp.view = "category_posts"
    /\ resp.name = "c2"
    /\ resp.status = "notfound"
    /\ \E i \in DOMAIN posts :
          /\ posts[i].category = "c2"
          /\ posts[i].author = resp.user
          /\ posts[i].is_published
          /\ posts[i].pub_date <= now

\* C10: a comment is created only on a post its author can see: the author's
\* own post or a live one; an add-comment request on a hidden post of
\* somebody else is NotFound and creates nothing.
C10_CommentOnlyOnVisiblePost ==
    (resp.view = "add_comment" /\ resp.user \in Users
       /\ resp.post_id \in DOMAIN posts
       /\ posts[resp.post_id].author # resp.user
       /\ HiddenPost(posts[resp.post_id])) =>
       resp.object = 0

=============================================================================
